---------------------------- MODULE Spec2Model ----------------------------
(***************************************************************************)
(* novel2epub (src/src/main.rs): a run of main validates its argument,     *)
(* opens a Novel session on the cover page, saves the cover image, walks   *)
(* the chapter pages by their next-links saving one file per chapter, and  *)
(* builds the archive from the files found in the novel directory.         *)
(*                                                                         *)
(* Text is modelled as a sequence of characters; a few fixed substrings    *)
(* the program only ever treats as a whole ("http", "://", "xhtml",        *)
(* "<div", "</div>") are single elements of such a sequence.  Option<T>    *)
(* is a sequence of length at most one, Result<T, E> is a record           *)
(* [ok, val, err].                                                         *)
(***************************************************************************)
EXTENDS Integers, Sequences, FiniteSets, TLC

VARIABLES
    pc,          \* position of main: the step it executes next
    exit,        \* process exit status, -1 while running
    arg,         \* env::args(): the sequence of arguments after the program name
    net,         \* the chapter pages the site has served: page -> parsed page
    host_url,    \* Novel.host_url
    cover,       \* Novel.cover: the parsed cover page
    chapter,     \* Novel.chapter: Option<ChapterPage>
    chapter_id,  \* Novel.chapter_id
    fs,          \* the directories under workdir: dir name -> (file name -> content)
    epub,        \* the archive files under workdir: archive name -> content
    fetched,     \* the requests sent so far, in order
    hist,        \* what has happened in the run (history, read by the properties only)
    fn_in,       \* the argument of the function under test
    fn_out       \* its result

vars == <<pc, exit, arg, net, host_url, cover, chapter, chapter_id, fs, epub,
          fetched, hist, fn_in, fn_out>>

-----------------------------------------------------------------------------
(* Bounds of the model *)

MaxTitleLen == 3
MaxUrlLen == 7
MaxPages == 3
MaxChapterId == 4
MaxCalls == 4
MaxKindLen == 5
MaxBodyLen == 5

-----------------------------------------------------------------------------
(* Option and Result *)

None == <<>>
Some(x) == <<x>>
IsSome(o) == Len(o) = 1
Ok(v) == [ok |-> TRUE, val |-> v, err |-> "none"]
Err(e) == [ok |-> FALSE, val |-> <<>>, err |-> e]

\* All sequences over S of length at most n
SeqUpTo(S, n) == UNION {[1..k -> S] : k \in 0..n}

-----------------------------------------------------------------------------
(* Text normalisation of titles *)

\* char::is_whitespace and the regex class \s, on the characters of the model
IsSpace(c) == c \in {" ", "TAB", "LF", "CR"}

RECURSIVE trim_start(_)
trim_start(s) ==
    IF s # <<>> /\ IsSpace(Head(s)) THEN trim_start(Tail(s)) ELSE s

RECURSIVE trim_end(_)
trim_end(s) ==
    IF s # <<>> /\ IsSpace(s[Len(s)]) THEN trim_end(SubSeq(s, 1, Len(s) - 1)) ELSE s

\* str::trim
trim(s) == trim_end(trim_start(s))

\* The members of the character class [\\|/|:|"|\n|\r\n|?]: inside a class
\* the bar is a member like the others.
ForbiddenClass == {"BSLASH", "|", "/", ":", "DQUOTE", "LF", "CR", "?"}

NotForbidden(c) == c \notin ForbiddenClass

NotForbiddenButQuestion(c) == c \notin (ForbiddenClass \ {"?"})

strip_forbidden_keeps_question(s) == SelectSeq(s, NotForbiddenButQuestion)

\* Regex::new(r#"[\\|/|:|"|\n|\r\n|?]{1,}"#)?.replace_all(&title, "")
strip_forbidden(s) == SelectSeq(s, NotForbidden)

\* Length of the run of whitespace that starts s
RECURSIVE SpaceRun(_)
SpaceRun(s) ==
    IF s # <<>> /\ IsSpace(Head(s)) THEN 1 + SpaceRun(Tail(s)) ELSE 0

\* Regex::new(r#"\s{2,}"#)?.replace_all(.., ""): every maximal run of two or
\* more whitespace characters is deleted, a single one is kept.
RECURSIVE remove_space_runs(_)
remove_space_runs(s) ==
    IF s = <<>> THEN <<>>
    ELSE LET n == SpaceRun(s) IN
         IF n >= 2 THEN remove_space_runs(SubSeq(s, n + 1, Len(s)))
         ELSE <<Head(s)>> \o remove_space_runs(Tail(s))

\* The part of CoverPage::title and ChapterPage::title after the selector:
\* inner_html().trim(), the two replacements, Ok(title).
normalize(inner) == remove_space_runs(trim(strip_forbidden(trim(inner))))

\* CoverPage::title: elem is the first h1.novel-title element's inner html,
\* None when no element matches.
CoverPage_title(elem) ==
    IF ~IsSome(elem) THEN Err("Selector") ELSE Ok(normalize(elem[1]))

\* CoverPage::author: the trimmed inner html of div.author > a > span
CoverPage_author(elem) ==
    IF ~IsSome(elem) THEN Err("Selector") ELSE Ok(trim(elem[1]))

\* ChapterPage::title: the same as CoverPage::title on span.chapter-title
ChapterPage_title(elem) ==
    IF ~IsSome(elem) THEN Err("Selector") ELSE Ok(normalize(elem[1]))

-----------------------------------------------------------------------------
(* Host derivation and argument validation *)

\* [[:alpha:]] on the elements of a URL: the letters, and the words made of
\* letters that the model keeps whole.
IsAlpha(c) == c \in {"a", "s", "v", "J", "http", "www", "lightnovelworld", "com",
                     "evil", "jpg", "xhtml"}

\* The first index from j on that holds no "s" (Len + 1 when there is none)
RECURSIVE SkipS(_, _)
SkipS(u, j) == IF j <= Len(u) /\ u[j] = "s" THEN SkipS(u, j + 1) ELSE j

\* The first index from j on that holds no letter (Len + 1 when there is none)
RECURSIVE AlphaEnd(_, _)
AlphaEnd(u, j) == IF j <= Len(u) /\ IsAlpha(u[j]) THEN AlphaEnd(u, j + 1) ELSE j

\* https*://[[:alpha:]]+\.[[:alpha:]]+\.[[:alpha:]]+ tried at index i of u:
\* the index of the last element of the match, 0 when there is no match at i.
host_match_end(u, i) ==
    IF i > Len(u) \/ u[i] # "http" THEN 0
    ELSE LET a == SkipS(u, i + 1) IN
         IF a > Len(u) \/ u[a] # "://" THEN 0
         ELSE LET b == AlphaEnd(u, a + 1) IN
              IF b = a + 1 \/ b > Len(u) \/ u[b] # "." THEN 0
              ELSE LET c == AlphaEnd(u, b + 1) IN
                   IF c = b + 1 \/ c > Len(u) \/ u[c] # "." THEN 0
                   ELSE LET d == AlphaEnd(u, c + 1) IN
                        IF d = c + 1 THEN 0 ELSE d - 1

\* Novel::host: the first (leftmost) match of the pattern anywhere in the
\* URL, capture[0] being the matched text.
host(title_url) ==
    LET starts == {i \in 1..Len(title_url) : host_match_end(title_url, i) > 0} IN
    IF starts = {} THEN Err("InvalidUrl")
    ELSE LET i == CHOOSE x \in starts : \A y \in starts : x <= y
         IN  Ok(SubSeq(title_url, i, host_match_end(title_url, i)))

\* Regex::new(r#"lightnovelworld\.com"#)?.is_match(&arg): a match anywhere
is_supported(url) ==
    \E i \in 1..(Len(url) - 2) :
        url[i] = "lightnovelworld" /\ url[i + 1] = "." /\ url[i + 2] = "com"

\* validate_arg: args is env::args() without the program name
validate_arg_result(args) ==
    IF Len(args) # 1 THEN Err("Other:usage")
    ELSE IF ~host(args[1]).ok THEN Err("InvalidUrl")
    ELSE IF is_supported(args[1]) THEN Ok(args[1])
    ELSE Err("Other:unsupported")

-----------------------------------------------------------------------------
(* File names and their order *)

PadWidth == 8

DigitChars == <<"0", "1", "2", "3", "4", "5", "6", "7", "8", "9">>

IsDigit(c) == c \in {"0", "1", "2", "3", "4", "5", "6", "7", "8", "9"}

\* Display of a u64
RECURSIVE Decimal(_)
Decimal(n) ==
    IF n < 10 THEN <<DigitChars[n + 1]>>
    ELSE Decimal(n \div 10) \o <<DigitChars[(n % 10) + 1]>>

\* {:0>8}: zeros on the left up to PadWidth characters, never a truncation
pad(digits) ==
    IF Len(digits) >= PadWidth THEN digits
    ELSE [i \in 1..(PadWidth - Len(digits)) |-> "0"] \o digits

\* format!("{:0>8} {}.xhtml", chapter_id, title), the file name under novel_dir
chapter_file_name(id, title) ==
    pad(Decimal(id)) \o <<" ">> \o title \o <<".", "xhtml">>

\* format!("{}.{img_type}", title), the cover file name under novel_dir
cover_file_name(title, img_type) == title \o <<".">> \o img_type

\* The byte value of a character (of the first byte, for a word kept whole)
Code(c) ==
    CASE c = "TAB" -> 9
      [] c = " " -> 32
      [] c = "*" -> 42
      [] c = "." -> 46
      [] IsDigit(c) -> 47 + (CHOOSE k \in 1..10 : DigitChars[k] = c)
      [] c = "[" -> 91
      [] c = "]" -> 93
      [] c = "a" -> 97
      [] c = "b" -> 98
      [] c = "jpg" -> 106
      [] c = "xhtml" -> 120
      [] OTHER -> 127

\* Ord::cmp of two file names: byte-wise, a proper prefix first
RECURSIVE LexLess(_, _)
LexLess(x, y) ==
    IF y = <<>> THEN FALSE
    ELSE IF x = <<>> THEN TRUE
    ELSE IF Code(Head(x)) # Code(Head(y)) THEN Code(Head(x)) < Code(Head(y))
    ELSE LexLess(Tail(x), Tail(y))

\* The names of a set in ascending order, as glob yields a directory's entries
RECURSIVE Sorted(_)
Sorted(names) ==
    IF names = {} THEN <<>>
    ELSE LET m == CHOOSE x \in names : \A y \in names \ {x} : LexLess(x, y)
         IN  <<m>> \o Sorted(names \ {m})

-----------------------------------------------------------------------------
(* Extraction from the cover page and the chapter pages *)

\* The longest suffix of s made of letters
RECURSIVE AlphaSuffix(_)
AlphaSuffix(s) ==
    IF s # <<>> /\ IsAlpha(s[Len(s)])
    THEN AlphaSuffix(SubSeq(s, 1, Len(s) - 1)) \o <<s[Len(s)]>>
    ELSE <<>>

RECURSIVE DropDigitSuffix(_)
DropDigitSuffix(s) ==
    IF s # <<>> /\ IsDigit(s[Len(s)]) THEN DropDigitSuffix(SubSeq(s, 1, Len(s) - 1))
    ELSE s

\* The commented-out pattern ([[:alpha:]]+)$ of cover_img_type
cover_img_type_plain(img_url) ==
    IF AlphaSuffix(img_url) # <<>> THEN Ok(AlphaSuffix(img_url)) ELSE Err("Image")

\* CoverPage::cover_img_type on the data-src value:
\* ([[:alpha:]]+)(?:\?v=\d*)??$ captures the run of letters that reaches the
\* end of the URL, or that reaches a final ?v= with any number of digits
\* after it.  A match starts at the leftmost place one exists, which is the
\* start of the run of letters.
cover_img_type(img_url) ==
    LET direct == AlphaSuffix(img_url)
        cut == DropDigitSuffix(img_url)
        n == Len(cut)
        before == IF n >= 3 /\ cut[n - 2] = "?" /\ cut[n - 1] = "v" /\ cut[n] = "="
                  THEN AlphaSuffix(SubSeq(cut, 1, n - 3)) ELSE <<>>
    IN  IF direct # <<>> THEN Ok(direct)
        ELSE IF before # <<>> THEN Ok(before)
        ELSE Err("Image")

\* The index of the first "</div>" from index i on that "." can reach, 0 when
\* a line feed or the end of the text comes first ("." matches no line feed).
RECURSIVE DivClose(_, _)
DivClose(s, i) ==
    IF i > Len(s) \/ s[i] = "LF" THEN 0
    ELSE IF s[i] = "</div>" THEN i
    ELSE DivClose(s, i + 1)

\* ChapterPage::remove_ad: Regex::new("<div.*?</div>")?.replace_all(&text, ""),
\* one pass from left to right over the non-overlapping matches.
RECURSIVE remove_ad(_)
remove_ad(text) ==
    IF text = <<>> THEN <<>>
    ELSE IF Head(text) = "<div" /\ DivClose(text, 2) > 0
         THEN remove_ad(SubSeq(text, DivClose(text, 2) + 1, Len(text)))
         ELSE <<Head(text)>> \o remove_ad(Tail(text))

\* ChapterPage::content: elem is the inner html of div.chapter-content
ChapterPage_content(elem) ==
    IF ~IsSome(elem) THEN Err("Selector") ELSE Ok(remove_ad(trim(elem[1])))

\* ChapterPage::compose_xhtml: the heading is written first, then the body
compose_xhtml(page) ==
    LET t == ChapterPage_title(page.title)
        c == ChapterPage_content(page.body)
    IN  IF ~t.ok THEN Err(t.err)
        ELSE IF ~c.ok THEN Err(c.err)
        ELSE Ok([kind |-> "xhtml", h1 |-> t.val, body |-> c.val])

-----------------------------------------------------------------------------
(* The file system under workdir *)

NoFiles == [n \in {} |-> <<>>]

\* std::fs::create_dir_all(&novel_dir): an existing directory is left as it is
create_dir_all(tree, dir) ==
    [d \in DOMAIN tree \cup {dir} |-> IF d \in DOMAIN tree THEN tree[d] ELSE NoFiles]

file_append(files, name, chunks) ==
    [n \in DOMAIN files \cup {name} |->
        IF n # name THEN files[n]
        ELSE IF n \in DOMAIN files THEN files[n] \o chunks ELSE chunks]

\* File::create(filepath)? followed by the write: the file is created or
\* truncated and then holds what was written (nothing when the write failed).
file_create(files, name, chunks) ==
    [n \in DOMAIN files \cup {name} |-> IF n = name THEN chunks ELSE files[n]]

\* The tree with file name of directory dir created and written
put_file(tree, dir, name, chunks) ==
    [create_dir_all(tree, dir) EXCEPT
        ![dir] = file_create(create_dir_all(tree, dir)[dir], name, chunks)]

-----------------------------------------------------------------------------
(* glob *)

\* The index of the first "]" of p from index j on, 0 if there is none
RECURSIVE ClassClose(_, _)
ClassClose(p, j) ==
    IF j > Len(p) THEN 0 ELSE IF p[j] = "]" THEN j ELSE ClassClose(p, j + 1)

\* glob::Pattern::new: a "[" opens a class that the first "]" from the third
\* character on closes; an unclosed "[" and a "**" inside a component are
\* pattern errors.
RECURSIVE pattern_ok(_)
pattern_ok(p) ==
    IF p = <<>> THEN TRUE
    ELSE IF Head(p) = "[" THEN
         ClassClose(p, 3) > 0 /\ pattern_ok(SubSeq(p, ClassClose(p, 3) + 1, Len(p)))
    ELSE IF Head(p) = "*" /\ Len(p) >= 2 /\ p[2] = "*" THEN FALSE
    ELSE pattern_ok(Tail(p))

\* glob::Pattern::matches on one path component
RECURSIVE pattern_matches(_, _)
pattern_matches(p, s) ==
    IF p = <<>> THEN s = <<>>
    ELSE IF Head(p) = "*" THEN
         pattern_matches(Tail(p), s) \/ (s # <<>> /\ pattern_matches(p, Tail(s)))
    ELSE IF Head(p) = "?" THEN s # <<>> /\ pattern_matches(Tail(p), Tail(s))
    ELSE IF Head(p) = "[" THEN
         LET j == ClassClose(p, 3) IN
         /\ s # <<>>
         /\ \E k \in 2..(j - 1) : p[k] = Head(s)
         /\ pattern_matches(SubSeq(p, j + 1, Len(p)), Tail(s))
    ELSE s # <<>> /\ Head(s) = Head(p) /\ pattern_matches(Tail(p), Tail(s))

\* The paths of one directory, in the order of names
RECURSIVE PathsIn(_, _)
PathsIn(dir, names) ==
    IF names = <<>> THEN <<>>
    ELSE <<[dir |-> dir, name |-> Head(names)]>> \o PathsIn(dir, Tail(names))

RECURSIVE PathsOf(_, _, _)
PathsOf(tree, dirs, file_pattern) ==
    IF dirs = <<>> THEN <<>>
    ELSE PathsIn(Head(dirs),
                 Sorted({n \in DOMAIN tree[Head(dirs)] : pattern_matches(file_pattern, n)}))
         \o PathsOf(tree, Tail(dirs), file_pattern)

\* glob::glob("{workdir}/{dir_pattern}/{file_pattern}"): the matching paths,
\* directory by directory, each in ascending order of file name.
glob(tree, dir_pattern, file_pattern) ==
    IF ~pattern_ok(dir_pattern) \/ ~pattern_ok(file_pattern) THEN Err("Pattern")
    ELSE Ok(PathsOf(tree,
                    Sorted({d \in DOMAIN tree : pattern_matches(dir_pattern, d)}),
                    file_pattern))

RECURSIVE FirstSpace(_, _)
FirstSpace(s, i) ==
    IF i > Len(s) THEN 0 ELSE IF s[i] = " " THEN i ELSE FirstSpace(s, i + 1)

\* Regex::new(r#"\d*? "#)?.replace(file_name, ""): the first space of the name
\* goes, with the digits that stand right before it.
chapter_name(file_name) ==
    LET sp == FirstSpace(file_name, 1) IN
    IF sp = 0 THEN file_name
    ELSE DropDigitSuffix(SubSeq(file_name, 1, sp - 1))
         \o SubSeq(file_name, sp + 1, Len(file_name))

-----------------------------------------------------------------------------
(* The inputs of a run: the command line and what the site serves *)

Pages == 1..MaxPages

GoodUrl == <<"http", "s", "://", "www", ".", "lightnovelworld", ".", "com", "/", "a">>
PathUrl == <<"http", "s", "://", "www", ".", "evil", ".", "com", "/",
             "lightnovelworld", ".", "com">>
OtherUrl == <<"http", "s", "://", "www", ".", "evil", ".", "com", "/", "a">>
BareUrl == <<"www", ".", "lightnovelworld", ".", "com", "/", "a">>
ShortUrl == <<"http", "s", "://", "lightnovelworld", ".", "com", "/", "a">>

Urls == {GoodUrl, PathUrl, OtherUrl, BareUrl, ShortUrl}

Args == {<<>>, <<GoodUrl, GoodUrl>>} \cup {<<u>> : u \in Urls}

\* What a request can come to: status 200, another status, no response
Statuses == {"200", "500", "error"}

ImgUrls == {<<"http", "://", "a", ".", "a", ".", "a", "/", "a", ".", "jpg", "?", "v", "=", "1">>,
            <<"http", "://", "a", ".", "a", ".", "a", "/", "1">>}

\* A parsed cover page: for each selector the inner html or attribute value of
\* the first match, None when the element or the attribute is missing.
CoverPages ==
    [title : {None, Some(<<"a">>), Some(<<" ">>), Some(<<"[", "a", "]">>)},
     author : {None, Some(<<"a">>)},
     img_url : {None} \cup {Some(u) : u \in ImgUrls},
     first : {None} \cup {Some(p) : p \in Pages}]

\* A parsed chapter page
ChapterPages ==
    [title : {None, Some(<<"b", ":", " ", " ", "b">>)},
     body : {None, Some(<<"<div", "a", "</div>", "a">>)},
     next : {None} \cup {Some(p) : p \in Pages}]

\* The pages served to a caller of the session's methods: complete ones, the
\* methods being called in every order on them
SessionCoverPages ==
    {c \in CoverPages : /\ c.title = Some(<<"a">>)
                        /\ c.author # None
                        /\ c.img_url # None
                        /\ cover_img_type(c.img_url[1]).ok}

SessionChapterPages == {c \in ChapterPages : c.title # None /\ c.body # None}

NoPage == [title |-> None, author |-> None, img_url |-> None, first |-> None]

\* What page p answers: a page already served answers the same again
Served(p) ==
    IF p \in DOMAIN net THEN {net[p]}
    ELSE IF hist.api THEN SessionChapterPages ELSE ChapterPages

Image == [kind |-> "image", h1 |-> <<>>, body |-> <<>>]

-----------------------------------------------------------------------------
(* The run of main, and the calls of a session *)

Hist0 == [api |-> FALSE, calls |-> 0, last |-> [op |-> "none", ok |-> TRUE],
          prev |-> [op |-> "none", ok |-> TRUE],
          absorbed |-> {}, faults |-> {}, failed |-> FALSE, saved |-> <<>>,
          covers |-> -1, built |-> FALSE, advanced |-> 0, via |-> "none",
          loop |-> FALSE]

NoFn == /\ fn_in = None
        /\ fn_out = None

Init ==
    /\ pc = "validate_arg"
    /\ exit = -1
    /\ arg \in Args
    /\ net = NoFiles
    /\ host_url = <<>>
    /\ cover = NoPage
    /\ chapter = None
    /\ chapter_id = 0
    /\ fs = NoFiles
    /\ epub = NoFiles
    /\ fetched = <<>>
    /\ hist = Hist0
    /\ NoFn

next_chapter_id_always(current, id) == id + 1

\* Novel::next: self.chapter_id += 1 only when a chapter is current
next_chapter_id(current, id) == IF IsSome(current) THEN id + 1 ELSE id

exit_status_zero(ok) == 0

Result_ok_unwrapped(r) == Some(r.val)

\* Result::ok: Ok(v) becomes Some(v), Err(_) becomes None
Result_ok(r) == IF r.ok THEN Some(r.val) ELSE None

\* The exit status of main's Result: 0 for Ok(()), 1 for Err(_)
exit_status(ok) == IF ok THEN 0 ELSE 1

\* The caller is at step l of main, or holds a session and may call any method
At(l) == pc = l \/ (pc = "session" /\ hist.calls < MaxCalls)

\* The history after a call; a run followed for its control flow alone
\* (hist.loop) keeps no history
Called(op, ok, h) ==
    IF hist.loop THEN hist
    ELSE [h EXCEPT !.calls = @ + 1, !.last = [op |-> op, ok |-> ok], !.prev = h.last,
                   !.failed = @ \/ ~ok]

\* The requests sent, with the one more
Requested(kind, page, status) ==
    IF hist.loop THEN fetched
    ELSE Append(fetched, [kind |-> kind, page |-> page, status |-> status])

\* The step returned Ok and main goes on at l
Continue(op, l, h) ==
    /\ pc' = IF hist.api THEN "session" ELSE l
    /\ exit' = exit
    /\ hist' = Called(op, TRUE, h)

\* The step returned Err(_), which main returns
Fail(op, fault, h) ==
    /\ pc' = IF hist.api THEN "session" ELSE "done"
    /\ exit' = IF hist.api THEN exit ELSE exit_status(FALSE)
    /\ hist' = Called(op, FALSE, [h EXCEPT !.faults = @ \cup {fault}])

\* main: let url = validate_arg()?
validate_arg ==
    /\ pc = "validate_arg"
    /\ LET r == validate_arg_result(arg) IN
       /\ pc' = IF r.ok THEN "new" ELSE "done"
       /\ exit' = IF r.ok THEN exit ELSE exit_status(FALSE)
       /\ hist' = [hist EXCEPT !.failed = ~r.ok]
    /\ UNCHANGED <<arg, net, host_url, cover, chapter, chapter_id, fs, epub,
                   fetched, fn_in, fn_out>>

\* Novel::new(&url, "novel")?: the host, then the request of the cover page
new ==
    /\ pc = "new"
    /\ LET h == host(arg[1]) IN
       IF ~h.ok
       THEN /\ pc' = "done"
            /\ exit' = exit_status(FALSE)
            /\ hist' = [hist EXCEPT !.failed = TRUE]
            /\ UNCHANGED <<host_url, cover, chapter, chapter_id, fetched>>
       ELSE \E status \in Statuses :
            /\ fetched' = Requested("cover", 0, status)
            /\ IF status # "200"
               THEN /\ pc' = "done"
                    /\ exit' = exit_status(FALSE)
                    /\ hist' = [hist EXCEPT !.failed = TRUE, !.faults = @ \cup {"http"}]
                    /\ UNCHANGED <<host_url, cover, chapter, chapter_id>>
               ELSE \E page \in (IF hist.api THEN SessionCoverPages ELSE CoverPages) :
                    /\ host_url' = h.val
                    /\ cover' = page
                    /\ chapter' = None
                    /\ chapter_id' = 1
                    /\ pc' = IF hist.api THEN "session" ELSE "cover_img_save"
                    /\ exit' = exit
                    /\ hist' = hist
    /\ UNCHANGED <<arg, net, fs, epub, fn_in, fn_out>>

\* Novel::cover_img_save
cover_img_save ==
    /\ pc = "cover_img_save"
    /\ LET op == "cover_img_save"
           t == CoverPage_title(cover.title)
       IN
       IF ~t.ok
       THEN Fail(op, "element", hist) /\ UNCHANGED <<fs, fetched>>
       ELSE \E dir_made \in BOOLEAN :
            IF ~dir_made
            THEN Fail(op, "io", hist) /\ UNCHANGED <<fs, fetched>>
            ELSE LET tree == create_dir_all(fs, t.val) IN
            IF ~IsSome(cover.img_url)
            THEN Fail(op, "element", hist) /\ fs' = tree /\ fetched' = fetched
            ELSE \E status \in Statuses :
                 /\ fetched' = Requested("image", 0, status)
                 /\ IF status # "200"
                    THEN Fail(op, "http", hist) /\ fs' = tree
                    ELSE LET k == cover_img_type(cover.img_url[1]) IN
                    IF ~k.ok
                    THEN Fail(op, "element", hist) /\ fs' = tree
                    ELSE \E io \in {"ok", "create", "write"} :
                         /\ fs' = IF io = "create" THEN tree
                                  ELSE put_file(tree, t.val, cover_file_name(t.val, k.val),
                                                IF io = "ok" THEN <<Image>> ELSE <<>>)
                         /\ IF io = "ok" THEN Continue(op, "next", hist)
                            ELSE Fail(op, "io", hist)
    /\ UNCHANGED <<arg, net, host_url, cover, chapter, chapter_id, epub, fn_in, fn_out>>

\* Novel::next, with _chapter_first and _chapter_next: whatever error they
\* return is dropped by ok().  In main the loop goes on to chapter_save when
\* next returned a chapter and leaves to build_epub when it returned None.
\* A run followed for its control flow alone keeps chapter_id, which decides
\* no branch, modulo MaxChapterId + 1.
next ==
    /\ At("next")
    /\ (IsSome(chapter) /\ ~hist.loop) => chapter_id < MaxChapterId
    /\ LET op == "next"
           link == IF IsSome(chapter) THEN chapter[1].next ELSE cover.first
           why == IF IsSome(chapter) THEN "next_link" ELSE "first_link"
           gone == [hist EXCEPT !.via = "none"]
       IN
       /\ chapter_id' = IF hist.loop
                        THEN next_chapter_id(chapter, chapter_id) % (MaxChapterId + 1)
                        ELSE next_chapter_id(chapter, chapter_id)
       /\ IF ~IsSome(link)
          THEN /\ chapter' = Result_ok(Err("Selector"))
               /\ UNCHANGED <<net, fetched>>
               /\ Continue(op, "build_epub", [gone EXCEPT !.absorbed = @ \cup {why}])
          ELSE \E status \in Statuses :
               /\ fetched' = Requested("page", link[1], status)
               /\ IF status # "200"
                  THEN /\ chapter' = Result_ok(Err("Http"))
                       /\ net' = net
                       /\ Continue(op, "build_epub",
                                   [gone EXCEPT !.absorbed = @ \cup {"http"},
                                                !.faults = @ \cup {"http"}])
                  ELSE \E page \in Served(link[1]) :
                       /\ chapter' = Result_ok(Ok(page))
                       /\ net' = [p \in DOMAIN net \cup {link[1]} |->
                                     IF p = link[1] THEN page ELSE net[p]]
                       /\ Continue(op, "chapter_save",
                                   [hist EXCEPT !.advanced = @ + 1, !.via = why])
    /\ UNCHANGED <<arg, host_url, cover, fs, epub, fn_in, fn_out>>

\* Novel::chapter_save
chapter_save ==
    /\ At("chapter_save")
    /\ LET op == "chapter_save"
           t == CoverPage_title(cover.title)
       IN
       IF ~t.ok
       THEN Fail(op, "element", hist) /\ fs' = fs
       ELSE \E dir_made \in BOOLEAN :
            IF ~dir_made
            THEN Fail(op, "io", hist) /\ fs' = fs
            ELSE LET tree == create_dir_all(fs, t.val) IN
            IF ~IsSome(chapter)
            THEN Fail(op, "empty", hist) /\ fs' = tree
            ELSE LET xhtml == compose_xhtml(chapter[1]) IN
            IF ~xhtml.ok
            THEN Fail(op, "element", hist) /\ fs' = tree
            ELSE LET name == chapter_file_name(chapter_id,
                                               ChapterPage_title(chapter[1].title).val)
                 IN
                 \E io \in {"ok", "create", "write"} :
                 /\ fs' = IF io = "create" THEN tree
                          ELSE put_file(tree, t.val, name,
                                        IF io = "ok" THEN <<xhtml.val>> ELSE <<>>)
                 /\ IF io = "ok"
                    THEN Continue(op, "next", [hist EXCEPT !.saved = Append(@, name)])
                    ELSE Fail(op, "io", hist)
    /\ UNCHANGED <<arg, net, host_url, cover, chapter, chapter_id, epub, fetched,
                   fn_in, fn_out>>

\* What can go wrong in build_epub outside the program's own data: the zip
\* library, reading a file, the builder refusing an entry, generate, creating
\* and writing the archive file.
BuildFaults == {"none", "zip", "read", "add", "generate", "create", "write"}

\* EpubContent::new(path, content).title(chapter_name) for each path
RECURSIVE Contents(_, _)
Contents(tree, paths) ==
    IF paths = <<>> THEN <<>>
    ELSE <<[path |-> Head(paths),
            title |-> chapter_name(Head(paths).name),
            data |-> tree[Head(paths).dir][Head(paths).name]]>>
         \o Contents(tree, Tail(paths))

\* add_cover_image(file name, content, "image/{img_type}") for each path
RECURSIVE CoverImages(_, _)
CoverImages(paths, img_type) ==
    IF paths = <<>> THEN <<>>
    ELSE <<[name |-> Head(paths).name, mime |-> <<"image/">> \o img_type]>>
         \o CoverImages(Tail(paths), img_type)

\* What build_epub comes to on cover page `page` and directory tree `tree`
\* under the given fault: [result, code, covers, archive], covers being the
\* number of cover files found (-1 when it did not get there) and archive
\* what the archive file holds afterwards (None: the file is not touched).
build_epub_result(page, tree, fault) ==
    LET a == CoverPage_author(page.author)
        t == CoverPage_title(page.title)
        k == IF IsSome(page.img_url) THEN cover_img_type(page.img_url[1])
             ELSE Err("Selector")
        images == IF t.ok /\ k.ok THEN glob(tree, t.val, cover_file_name(t.val, k.val))
                  ELSE Err("none")
        texts == IF t.ok THEN glob(tree, t.val, <<"*", ".", "xhtml">>) ELSE Err("none")
        err(why, n) == [result |-> why, code |-> 1, covers |-> n, archive |-> None]
    IN  IF fault = "zip" THEN err("encoder", -1)
        ELSE IF ~a.ok \/ ~t.ok \/ ~k.ok THEN err("element", -1)
        ELSE IF ~images.ok THEN err("pattern", -1)
        ELSE IF images.val # <<>> /\ fault = "read" THEN err("io", Len(images.val))
        ELSE IF images.val # <<>> /\ fault = "add" THEN err("encoder", Len(images.val))
        ELSE IF ~texts.ok THEN err("pattern", Len(images.val))
        ELSE IF texts.val # <<>> /\ fault = "read" THEN err("io", Len(images.val))
        ELSE IF texts.val # <<>> /\ fault = "add" THEN err("encoder", Len(images.val))
        ELSE IF fault = "generate"
             THEN [result |-> "panic", code |-> 101, covers |-> Len(images.val),
                   archive |-> None]
        ELSE IF fault = "create" THEN err("io", Len(images.val))
        ELSE IF fault = "write"
             THEN [result |-> "io", code |-> 1, covers |-> Len(images.val),
                   archive |-> Some(<<>>)]
        ELSE [result |-> "ok", code |-> 0, covers |-> Len(images.val),
              archive |-> Some(<<[author |-> a.val, title |-> t.val,
                                  cover |-> CoverImages(images.val, k.val),
                                  content |-> Contents(tree, texts.val)]>>)]

\* Novel::build_epub, and the end of main: Ok(()) after it
build_epub ==
    /\ pc = "build_epub"
    /\ \E fault \in BuildFaults :
       LET r == build_epub_result(cover, fs, fault)
           name == CoverPage_title(cover.title).val
           h == [hist EXCEPT !.covers = r.covers, !.built = @ \/ r.result = "ok"]
       IN
       /\ epub' = IF IsSome(r.archive) THEN file_create(epub, name, r.archive[1])
                  ELSE epub
       /\ IF r.result = "ok"
          THEN /\ pc' = "done"
               /\ exit' = exit_status(TRUE)
               /\ hist' = Called("build_epub", TRUE, h)
          ELSE IF r.result = "panic"
          THEN /\ pc' = "done"
               /\ exit' = r.code
               /\ hist' = Called("build_epub", FALSE,
                                 [h EXCEPT !.faults = @ \cup {"encoder"}])
          ELSE Fail("build_epub", r.result, h)
    /\ UNCHANGED <<arg, net, host_url, cover, chapter, chapter_id, fs, fetched,
                   fn_in, fn_out>>

Next ==
    \/ validate_arg
    \/ new
    \/ cover_img_save
    \/ next
    \/ chapter_save
    \/ build_epub

\* A run of main
Spec == Init /\ [][Next]_vars

\* A caller that validates its argument, creates the session and then calls
\* next and chapter_save in any order
InitApi ==
    /\ pc = "validate_arg"
    /\ exit = -1
    /\ arg \in Args
    /\ net = NoFiles
    /\ host_url = <<>>
    /\ cover = NoPage
    /\ chapter = None
    /\ chapter_id = 0
    /\ fs = NoFiles
    /\ epub = NoFiles
    /\ fetched = <<>>
    /\ hist = [Hist0 EXCEPT !.api = TRUE]
    /\ NoFn

NextApi ==
    \/ validate_arg
    \/ new
    \/ next
    \/ chapter_save

SpecApi == InitApi /\ [][NextApi]_vars

-----------------------------------------------------------------------------
(* The functions on their own: the argument is drawn, the function applied *)

Idle ==
    /\ pc = "call"
    /\ exit = -1
    /\ arg = <<>>
    /\ net = NoFiles
    /\ host_url = <<>>
    /\ cover = NoPage
    /\ chapter = None
    /\ chapter_id = 0
    /\ fs = NoFiles
    /\ epub = NoFiles
    /\ fetched = <<>>
    /\ hist = Hist0

Return(result) ==
    /\ pc = "call"
    /\ pc' = "returned"
    /\ fn_out' = result
    /\ UNCHANGED <<exit, arg, net, host_url, cover, chapter, chapter_id, fs, epub,
                   fetched, hist, fn_in>>

TitleChars == {"a", " ", "TAB", "LF", "CR", "BSLASH", "/", ":", "DQUOTE", "?", "|", "["}

\* title() of a cover page and of a chapter page, on every short inner html
InitTitle ==
    /\ Idle
    /\ fn_in \in [page : {"cover", "chapter"},
                  elem : {None} \cup {Some(s) : s \in SeqUpTo(TitleChars, MaxTitleLen)}]
    /\ fn_out = None

call_CoverPage_title ==
    /\ fn_in.page = "cover"
    /\ Return(CoverPage_title(fn_in.elem))

call_ChapterPage_title ==
    /\ fn_in.page = "chapter"
    /\ Return(ChapterPage_title(fn_in.elem))

NextTitle ==
    \/ call_CoverPage_title
    \/ call_ChapterPage_title

SpecTitle == InitTitle /\ [][NextTitle]_vars

UrlChars == {"http", "s", "://", "a", ".", "/"}

\* Longer URLs: the pattern after other text, more than three labels
LongUrls == {<<"a", "http", "://", "a", ".", "a", ".", "a">>,
             <<"/", "http", "s", "://", "a", ".", "a", ".", "a", "/", "a">>,
             <<"http", "s", "://", "a", ".", "a", ".", "a", ".", "a", "/", "a">>,
             <<"http", "s", "s", "://", "a", ".", "a", ".", "a">>}

\* Novel::host on every short URL and on the longer ones
InitHost ==
    /\ Idle
    /\ \/ \E head \in SeqUpTo(UrlChars, 2), rest \in SeqUpTo(UrlChars, MaxUrlLen - 2) :
             fn_in = head \o rest
       \/ fn_in \in LongUrls
    /\ fn_out = None

call_host ==
    /\ pc = "call"
    /\ Return(host(fn_in))

SpecHost == InitHost /\ [][call_host]_vars

SampleIds == {1, 2, 9, 10, 11, 99, 100, 99999999, 100000000, 100000001,
              999999999, 1000000000}

\* chapter_save's file names for two chapters, and build_epub's listing of
\* the directory that holds the two files
InitName ==
    /\ Idle
    /\ fn_in \in [i : SampleIds, j : SampleIds,
                  title_i : {<<"a">>, <<"b">>}, title_j : {<<"a">>, <<"b">>}]
    /\ fn_out = None

call_chapter_file_name ==
    /\ pc = "call"
    /\ LET name_i == chapter_file_name(fn_in.i, fn_in.title_i)
           name_j == chapter_file_name(fn_in.j, fn_in.title_j)
           tree == put_file(put_file(NoFiles, <<"a">>, name_i, <<>>), <<"a">>, name_j, <<>>)
       IN  Return([name_i |-> name_i, name_j |-> name_j,
                   listing |-> glob(tree, <<"a">>, <<"*", ".", "xhtml">>).val])

SpecName == InitName /\ [][call_chapter_file_name]_vars

KindChars == {"a", "J", "v", "?", "=", "1", ".", "/"}

\* CoverPage::cover_img_type on every short data-src value
InitKind ==
    /\ Idle
    /\ fn_in \in SeqUpTo(KindChars, MaxKindLen)
    /\ fn_out = None

call_cover_img_type ==
    /\ pc = "call"
    /\ Return(cover_img_type(fn_in))

SpecKind == InitKind /\ [][call_cover_img_type]_vars

BodyChars == {"<div", "</div>", "a", "LF"}

\* ChapterPage::content on every short inner html of div.chapter-content
InitBody ==
    /\ Idle
    /\ fn_in \in {None} \cup {Some(s) : s \in SeqUpTo(BodyChars, MaxBodyLen)}
    /\ fn_out = None

call_ChapterPage_content ==
    /\ pc = "call"
    /\ Return(ChapterPage_content(fn_in))

SpecBody == InitBody /\ [][call_ChapterPage_content]_vars

\* What an earlier run for the novel "a" has left in its directory: the
\* program never clears workdir
Leftover ==
    put_file(NoFiles, <<"a">>, chapter_file_name(2, <<"c">>),
             <<[kind |-> "xhtml", h1 |-> <<"c">>, body |-> <<"a">>]>>)

\* A run of main in a workdir that holds the files of an earlier run
InitRerun ==
    /\ pc = "validate_arg"
    /\ exit = -1
    /\ arg \in Args
    /\ net = NoFiles
    /\ host_url = <<>>
    /\ cover = NoPage
    /\ chapter = None
    /\ chapter_id = 0
    /\ fs = Leftover
    /\ epub = NoFiles
    /\ fetched = <<>>
    /\ hist = Hist0
    /\ NoFn

SpecRerun == InitRerun /\ [][Next]_vars

\* A run of main followed for its control flow
InitLoop ==
    /\ pc = "validate_arg"
    /\ exit = -1
    /\ arg \in Args
    /\ net = NoFiles
    /\ host_url = <<>>
    /\ cover = NoPage
    /\ chapter = None
    /\ chapter_id = 0
    /\ fs = NoFiles
    /\ epub = NoFiles
    /\ fetched = <<>>
    /\ hist = [Hist0 EXCEPT !.loop = TRUE]
    /\ NoFn

\* Inside its loop main takes the step it is at: it calls next, and
\* chapter_save when next has returned a chapter
SpecLoop == InitLoop /\ [][Next]_vars /\ WF_vars(next) /\ WF_vars(chapter_save)

-----------------------------------------------------------------------------
(* Properties *)

\* The number a sequence of digits denotes
RECURSIVE Value(_)
Value(digits) ==
    IF digits = <<>> THEN 0
    ELSE 10 * Value(SubSeq(digits, 1, Len(digits) - 1))
         + ((CHOOSE k \in 1..10 : DigitChars[k] = digits[Len(digits)]) - 1)

\* The number in the first eight characters of a file name, -1 when these
\* are not eight digits followed by a space
PrefixNumber(name) ==
    IF Len(name) >= 9 /\ (\A i \in 1..8 : IsDigit(name[i])) /\ name[9] = " "
    THEN Value(SubSeq(name, 1, 8)) ELSE -1

\* The number of pages of the chain that starts at link, when the site has
\* served every page of it, each with a title and a body, and the chain ends
\* at a page without next-link; negative otherwise.
RECURSIVE ChainLen(_, _)
ChainLen(link, seen) ==
    IF ~IsSome(link) THEN 0
    ELSE IF \/ link[1] \in seen
            \/ link[1] \notin DOMAIN net
            \/ net[link[1]].title = None
            \/ net[link[1]].body = None
         THEN -100
    ELSE 1 + ChainLen(net[link[1]].next, seen \cup {link[1]})

\* The *.xhtml files of the novel directory
ChapterFiles ==
    LET dir == CoverPage_title(cover.title).val IN
    IF dir \in DOMAIN fs
    THEN {n \in DOMAIN fs[dir] : pattern_matches(<<"*", ".", "xhtml">>, n)}
    ELSE {}

\* C1: when the cover page links to a chain of k >= 0 complete chapter pages,
\* every request is answered 200 and the file system works, the finished run
\* has written exactly k chapter files, the i-th under the eight-digit
\* prefix i: 1, 2, ..., k without gap or duplicate.
C1_ChainNumbering ==
    (/\ pc = "done"
     /\ host_url # <<>>
     /\ ChainLen(cover.first, {}) >= 0
     /\ hist.faults \cap {"http", "io"} = {})
    => LET k == ChainLen(cover.first, {}) IN
       /\ Len(hist.saved) = k
       /\ \A i \in 1..k : PrefixNumber(hist.saved[i]) = i
       /\ ChapterFiles = {hist.saved[i] : i \in 1..k}
       /\ Cardinality(ChapterFiles) = k

C1_Witness ==
    /\ pc = "done"
    /\ exit = 0
    /\ ChainLen(cover.first, {}) = 2
    /\ Len(hist.saved) = 2
    /\ hist.faults = {}

\* C2: at the end of a run, when Novel::next has dropped an error other than
\* a failure to extract the next-chapter link (a request that failed, a cover
\* page without first-chapter link), the run has exited non-zero and has
\* written no archive.
C2_OnlyNextLinkAbsorbed ==
    (pc = "done" /\ hist.absorbed \ {"next_link"} # {})
    => (exit # 0 /\ ~hist.built)

\* C3: the exit status is 0 only when the run is over and build_epub has
\* written the whole archive workdir/<title>.epub in it; once a step of main
\* has returned an error or panicked the exit status is 1 or 101.
C3_ExitStatus ==
    /\ exit = 0 =>
          /\ pc = "done"
          /\ hist.built
          /\ CoverPage_title(cover.title).val \in DOMAIN epub
          /\ Len(epub[CoverPage_title(cover.title).val]) = 1
    /\ hist.failed => exit \in {1, 101}

C3_Witness ==
    /\ pc = "done"
    /\ exit = 0
    /\ hist.built
    /\ Len(hist.saved) >= 1

\* The scheme's end in a URL that starts with "http" and any number of "s"
\* followed by "://", 0 for another URL
SchemeEnd(u) ==
    IF u # <<>> /\ u[1] = "http" /\ SkipS(u, 2) <= Len(u) /\ u[SkipS(u, 2)] = "://"
    THEN SkipS(u, 2) ELSE 0

RECURSIVE UpToSlash(_)
UpToSlash(s) ==
    IF s = <<>> \/ Head(s) = "/" THEN <<>> ELSE <<Head(s)>> \o UpToSlash(Tail(s))

\* The authority of a URL: what stands between the scheme and the first slash
Authority(u) ==
    IF SchemeEnd(u) = 0 THEN <<>> ELSE UpToSlash(SubSeq(u, SchemeEnd(u) + 1, Len(u)))

\* C4: when the host of the URL given is not the supported domain, the run
\* sends no request: validate_arg rejects the URL and main ends with status 1.
C4_ForeignHostNeverFetched ==
    (Len(arg) = 1 /\ ~is_supported(Authority(arg[1])))
    => /\ fetched = <<>>
       /\ pc \in {"validate_arg", "done"}
       /\ pc = "done" => exit = 1

\* C5: when build_epub finds no cover image file workdir/<title>/<title>.<kind>
\* it fails and leaves the archive file unwritten.
C5_BuildFailsWithoutCover ==
    (hist.last.op = "build_epub" /\ hist.covers = 0)
    => (~hist.last.ok /\ epub = NoFiles)

\* C6: for sequence numbers i < j the file name chapter_save writes for i
\* sorts before the one it writes for j, and build_epub lists the file of i
\* before the file of j.
C6_NamesSortByNumber ==
    (pc = "returned" /\ fn_in.i < fn_in.j)
    => /\ LexLess(fn_out.name_i, fn_out.name_j)
       /\ fn_out.listing = <<[dir |-> <<"a">>, name |-> fn_out.name_i],
                             [dir |-> <<"a">>, name |-> fn_out.name_j]>>

\* C7: title() never returns Ok of the empty string.
C7_TitleNeverEmpty ==
    (pc = "returned" /\ fn_out.ok) => fn_out.val # <<>>

\* The labels that start at index j of u: how many there are (n) and where
\* the last one ends
RECURSIVE Labels(_, _)
Labels(u, j) ==
    LET b == AlphaEnd(u, j) IN
    IF b = j THEN [n |-> 0, end |-> j - 1]
    ELSE IF b <= Len(u) /\ u[b] = "."
         THEN LET r == Labels(u, b + 1) IN
              IF r.n = 0 THEN [n |-> 1, end |-> b - 1]
              ELSE [n |-> r.n + 1, end |-> r.end]
         ELSE [n |-> 1, end |-> b - 1]

\* host as C8 states it: http:// or https:// at the start, then two or more
\* labels separated by dots; the result is the scheme with all the labels.
HostAsStated(u) ==
    LET e == IF Len(u) >= 2 /\ u[1] = "http" /\ u[2] = "://" THEN 2
             ELSE IF Len(u) >= 3 /\ u[1] = "http" /\ u[2] = "s" /\ u[3] = "://" THEN 3
             ELSE 0
    IN  IF e = 0 THEN Err("InvalidUrl")
        ELSE IF Labels(u, e + 1).n >= 2 THEN Ok(SubSeq(u, 1, Labels(u, e + 1).end))
        ELSE Err("InvalidUrl")

\* C8: host(url) succeeds exactly when url starts with http:// or https://
\* followed by two or more dot-separated labels, and returns the whole
\* scheme and authority; it fails with InvalidUrl otherwise.
C8_HostAsStated ==
    pc = "returned" => fn_out = HostAsStated(fn_in)

TitleForbidden == {"BSLASH", "/", ":", "DQUOTE", "?", "CR", "LF"}

\* C9: the string title() returns, for a cover page and for a chapter page,
\* holds no backslash, slash, colon, double quote, question mark, carriage
\* return or line feed.
C9_TitleHasNoForbiddenChar ==
    (pc = "returned" /\ fn_out.ok)
    => \A i \in 1..Len(fn_out.val) : fn_out.val[i] \notin TitleForbidden

C9_Witness ==
    /\ pc = "returned"
    /\ fn_in.page = "chapter"
    /\ fn_out.ok
    /\ fn_out.val # <<>>
    /\ \E i \in 1..Len(fn_in.elem[1]) : fn_in.elem[1][i] = "?"

SaveOk == [op |-> "chapter_save", ok |-> TRUE]

\* C10: a call of chapter_save that succeeds right after a call of
\* chapter_save that succeeded (same current chapter, same sequence number)
\* leaves every directory with the same files holding the same content.
C10_SaveTwiceSameFiles ==
    [][(hist.last = SaveOk /\ hist'.calls = hist.calls + 1 /\ hist'.last = SaveOk)
       => fs' = fs]_vars

C10_Witness ==
    /\ hist.last = SaveOk
    /\ hist.prev = SaveOk
    /\ Cardinality(ChapterFiles) = 1

\* The places of url from which on it reads ?v= followed by digits only
VersionCuts(url) ==
    {k \in 1..(Len(url) - 2) :
        /\ url[k] = "?" /\ url[k + 1] = "v" /\ url[k + 2] = "="
        /\ \A i \in (k + 3)..Len(url) : IsDigit(url[i])}

\* url without its trailing ?v=<digits>, when it has one
WithoutVersion(url) ==
    IF VersionCuts(url) = {} THEN url
    ELSE SubSeq(url, 1, (CHOOSE k \in VersionCuts(url) : TRUE) - 1)

\* The length of the longest run of letters that ends s
TrailingLetters(s) ==
    CHOOSE n \in 0..Len(s) :
        /\ \A i \in (Len(s) - n + 1)..Len(s) : IsAlpha(s[i])
        /\ n < Len(s) => ~IsAlpha(s[Len(s) - n])

\* C11: cover_img_type returns the run of letters that ends the URL once an
\* optional trailing ?v=<digits> is set aside, in the case it has in the URL,
\* and fails with NovelError::Image when there is no letter at that place.
C11_KindIsTrailingLetters ==
    pc = "returned" =>
        LET s == WithoutVersion(fn_in)
            n == TrailingLetters(s)
        IN  fn_out = IF n = 0 THEN Err("Image")
                     ELSE Ok(SubSeq(s, Len(s) - n + 1, Len(s)))

C11_Witness ==
    /\ pc = "returned"
    /\ fn_in = <<"J", "?", "v", "=", "1">>
    /\ fn_out = Ok(<<"J">>)

\* The step is a call of op that has returned
IsCall(op) == hist'.calls = hist.calls + 1 /\ hist'.last.op = op

\* C12: a call of Novel::next returns no error.  When its link is missing or
\* its request is not answered 200, the current chapter becomes None and None
\* is returned (main leaves its loop); when the request is answered 200 the
\* current chapter becomes the page just fetched and is returned (main goes
\* on to chapter_save).
C12_NextAbsorbsFailure ==
    [][IsCall("next") =>
          LET link == IF IsSome(chapter) THEN chapter[1].next ELSE cover.first
              sent == Len(fetched') = Len(fetched) + 1
              answered == /\ IsSome(link)
                          /\ sent
                          /\ fetched'[Len(fetched')].page = link[1]
                          /\ fetched'[Len(fetched')].status = "200"
          IN  /\ hist'.last.ok
              /\ hist'.failed = hist.failed
              /\ exit' = exit
              /\ IsSome(link) <=> sent
              /\ IF answered THEN chapter' = Some(net'[link[1]]) ELSE chapter' = None
              /\ ~hist.api =>
                    pc' = IF IsSome(chapter') THEN "chapter_save" ELSE "build_epub"]_vars

C12_Witness ==
    /\ hist.last.op = "next"
    /\ hist.advanced = 1
    /\ chapter = None
    /\ fetched # <<>>
    /\ fetched[Len(fetched)].kind = "page"
    /\ fetched[Len(fetched)].status = "500"

\* C13: once Novel::next has returned None after having returned a chapter,
\* a later call of next on the session returns None again and sends no
\* request.
C13_TerminalAbsorbing ==
    [][(IsCall("next") /\ chapter = None /\ hist.advanced >= 1)
       => (chapter' = None /\ fetched' = fetched)]_vars

\* C14: the body ChapterPage::content returns holds no "<div" with a
\* "</div>" after it, whatever the text was, line feeds included.
C14_BodyHasNoDivBlock ==
    (pc = "returned" /\ fn_out.ok)
    => ~\E i, j \in 1..Len(fn_out.val) :
           i < j /\ fn_out.val[i] = "<div" /\ fn_out.val[j] = "</div>"

\* C15: whenever the session holds a current chapter, chapter_id is the
\* number of calls of next that have returned a chapter so far, and a chapter
\* fetched through the cover's first-chapter link has chapter_id 1.
C15_CounterCountsAdvances ==
    IsSome(chapter) =>
        /\ chapter_id = hist.advanced
        /\ hist.via = "first_link" => chapter_id = 1

\* C16: the archive a run has written for a novel of plain title holds one
\* content entry per chapter file the run has saved, in the order saved, and
\* no other entry, whatever the novel directory held before the run.
C16_ArchiveHoldsThisRunsChapters ==
    (pc = "done" /\ hist.built /\ cover.title = Some(<<"a">>))
    => LET content == epub[<<"a">>][1].content IN
       /\ Len(content) = Len(hist.saved)
       /\ \A i \in 1..Len(content) : content[i].path.name = hist.saved[i]

\* C17: the loop of main ends: from every call of Novel::next on, the run
\* comes to build_epub or to its end, also on a site whose next-links lead
\* back to a page already visited.
C17_LoopEnds == (pc = "next") ~> (pc \in {"build_epub", "done"})

=============================================================================
